---- MODULE Spec2Model ----
(***************************************************************************)
(* Model of src/tokens/user_token.rs of twitch_oauth2: the UserToken       *)
(* entity (lifetime computation, refresh), and the two flow builders       *)
(* UserTokenBuilder (authorization code) and ImplicitUserTokenBuilder.     *)
(*                                                                         *)
(* An async fn is modelled with one step per synchronous stretch: the      *)
(* step that runs up to the first .await (issuing the injected HTTP call)  *)
(* and one step per response.  While a call is in flight time may pass     *)
(* and the future may be dropped.                                          *)
(*                                                                         *)
(* Durations are counted in ticks, TicksPerSec ticks to the second (the    *)
(* model's resolution in place of 10^9 nanoseconds); an Instant is the     *)
(* tick count of the monotonic clock `now`.                                *)
(***************************************************************************)
EXTENDS Integers, Sequences, FiniteSets, TLC

\* ------------------------------------------------------------------ bounds
MaxTime == 2        \* the clock runs from 0 to MaxTime ticks
MaxExpiry == 2      \* finite lifetimes reported by the server: 0..MaxExpiry ticks
TicksPerSec == 2    \* sub-second resolution of a Duration
MaxSecs == 3        \* stands for u64::MAX, the largest seconds count of a Duration
MaxScopes == 1      \* longest scope list a builder holds

\* ------------------------------------------------------------------ values
None == [some |-> FALSE]
Some(x) == [some |-> TRUE, v |-> x]
Option(S) == {None} \cup {Some(x) : x \in S}

AccessTokens == {"at0", "at1"}
RefreshTokens == {"rt0", "rt1"}
ClientIds == {"cid0", "cid1"}
ClientSecrets == {"sec0", "sec1"}
ScopeVals == {"chat:read"}
Logins == {"login0"}
UserIds == {"uid0"}
\* CsrfToken::new_random is base64 of 16 random bytes: never the empty string
RandomCsrf == {"r1", "r2"}
CsrfVals == {""} \cup RandomCsrf
Codes == {"authcode"}

\* Duration::new(u64::MAX, 1_000_000_000 - 1)
DurationMax == MaxSecs * TicksPerSec + (TicksPerSec - 1)
\* the lifetimes a server reports
Durations == 0 .. MaxExpiry

as_secs(d) == d \div TicksPerSec
\* total count of sub-second units of the duration
as_nanos(d) == d

\* checked_sub as a plain subtraction: the underflow goes unnoticed
checked_sub_unchecked(a, b) == Some(a - b)

\* Duration::checked_sub: None on underflow
checked_sub(a, b) == IF b > a THEN None ELSE Some(a - b)
\* Option<Duration>::unwrap_or_default
unwrap_or_default(o) == IF o.some THEN o.v ELSE 0

VARIABLES
    now,      \* the monotonic clock (Instant::now), in ticks
    tok,      \* the UserToken, None before one is constructed
    ub,       \* the UserTokenBuilder, None once consumed (or never built)
    ib,       \* the ImplicitUserTokenBuilder, None once consumed (or never built)
    pc,       \* "idle", or the .await the running async fn is suspended at
    pend,     \* what the suspended async fn holds: its locals and its request
    op,       \* the operation invoked last
    args,     \* its arguments and the object it was invoked on, as they were
              \* (a refresh: also the request it made and what preceded it)
    res,      \* its result ("Pending" while it is suspended)
    calls,    \* calls of the injected HTTP capability it made
    bh,       \* builder history: the CSRF value generate_url returned last
              \* (issued) and the one it returned the time before (prev),
              \* whether set_csrf (or a store into csrf) was ever done
              \* (stored), and whether generate_url was the last to write
              \* the csrf field (fresh)
    dropped   \* the last successful refresh brought no refresh token and none
              \* was stored since

vars == <<now, tok, ub, ib, pc, pend, op, args, res, calls, bh, dropped>>

\* ------------------------------------------------------------------ UserToken
\* Instant::elapsed of struct_created
elapsed(t) == now - t.struct_created

from_existing_unchecked(access_token, refresh_token, client_id, client_secret, login, user_id, scopes, expires_in) ==
    [access_token |-> access_token,
     client_id |-> client_id,
     client_secret |-> client_secret,
     login |-> login,
     user_id |-> user_id,
     refresh_token |-> refresh_token,
     expires_in |-> IF expires_in.some THEN expires_in.v ELSE DurationMax,
     struct_created |-> now,
     scopes |-> IF scopes.some THEN scopes.v ELSE <<>>,
     never_expiring |-> ~expires_in.some]

\* expires_in without the never_expiring branch
expires_in_ignores_flag(t) ==
    unwrap_or_default(checked_sub(t.expires_in, elapsed(t)))

expires_in(t) ==
    IF ~t.never_expiring
    THEN unwrap_or_default(checked_sub(t.expires_in, elapsed(t)))
    ELSE DurationMax

\* the history of a builder nothing was done with, and of no builder
NoHistory == [issued |-> None, prev |-> None, stored |-> FALSE, fresh |-> FALSE]

Idle == pc = "idle"
NoBuilder == ub = None /\ ib = None
\* a caller that builds its token with a constructor has no builder and has
\* done nothing yet but call from_existing without getting a token
Direct == NoBuilder /\ op \in {"none", "from_existing"}

\* The clock is read by the construction of a token and by expires_in only,
\* and expires_in looks at the time since the construction alone: the time
\* that passes before a token exists is left out, the clock starts with it.
Tick ==
    /\ now < MaxTime
    /\ tok # None
    /\ now' = now + 1
    /\ UNCHANGED <<tok, ub, ib, pc, pend, op, res, calls, args, bh, dropped>>

FromExistingUnchecked ==
    /\ Idle /\ Direct /\ tok = None
    /\ \E at \in AccessTokens, rt \in Option(RefreshTokens), cid \in ClientIds,
          cs \in Option(ClientSecrets), sc \in Option({<<>>}),
          ex \in Option(Durations) :
          tok' = Some(from_existing_unchecked(at, rt, cid, cs, "login0", "uid0", sc, ex))
    /\ op' = "from_existing_unchecked"
    /\ res' = [tag |-> "Ok"]
    /\ calls' = 0
    /\ UNCHANGED <<now, ub, ib, pc, pend, bh, dropped>>
    /\ args' = None

\* a secret once set is not taken away again
set_secret_keeps_some(t, secret) ==
    IF secret.some THEN [t EXCEPT !.client_secret = secret] ELSE t

\* self.client_secret = secret
set_secret(t, secret) == [t EXCEPT !.client_secret = secret]

SetSecret ==
    /\ Idle /\ tok # None
    /\ \E secret \in Option(ClientSecrets) :
          /\ tok' = Some(set_secret(tok.v, secret))
          /\ args' = [self |-> tok.v, secret |-> secret]
    /\ op' = "set_secret"
    /\ res' = [tag |-> "Ok"]
    /\ calls' = 0
    /\ UNCHANGED <<now, ub, ib, pc, pend, bh, dropped>>

\* Outcomes of crate::refresh_token (the refresh protocol): a transport error of
\* the injected call, a provider error, an unparseable body, or the new token
\* triple (access token, expiry, optional refresh token).
RefreshErrors == {"RequestError", "TwitchError", "ParseError"}
RefreshOutcomes ==
    {[ok |-> FALSE, err |-> e] : e \in RefreshErrors}
    \cup {[ok |-> TRUE, access_token |-> a, expires |-> d, refresh_token |-> r] :
            a \in AccessTokens, d \in Durations, r \in Option(RefreshTokens)}

\* the two checks in the other order: the refresh token is looked at first
refresh_precheck_swapped(t) ==
    IF t.refresh_token.some
    THEN IF t.client_secret.some THEN "call" ELSE "NoClientSecretFound"
    ELSE "NoRefreshToken"

\* the missing refresh token reported with the other error
refresh_precheck_wrong_error(t) ==
    IF t.client_secret.some
    THEN IF t.refresh_token.some THEN "call" ELSE "NoClientSecretFound"
    ELSE "NoClientSecretFound"

\* refresh_token, up to the .await: which check rejects the call, if any
refresh_precheck(t) ==
    IF t.client_secret.some
    THEN IF t.refresh_token.some THEN "call" ELSE "NoRefreshToken"
    ELSE "NoClientSecretFound"

\* the request handed to crate::refresh_token
refresh_request(t) ==
    [grant_type |-> "refresh_token",
     refresh_token |-> t.refresh_token.v,
     client_id |-> t.client_id,
     client_secret |-> t.client_secret.v]

\* self.refresh_token.take()
take_refresh_token(t) == [t EXCEPT !.refresh_token = None]

\* the assignments without the one of refresh_token
refresh_assign_keeps_refresh_token(t, out) ==
    [t EXCEPT !.access_token = out.access_token,
              !.expires_in = out.expires]

\* the client secret is used up by the refresh
refresh_assign_drops_secret(t, out) ==
    [t EXCEPT !.access_token = out.access_token,
              !.expires_in = out.expires,
              !.refresh_token = out.refresh_token,
              !.client_secret = None]

\* the reported expiry is added to the one the token had
refresh_assign_adds_expiry(t, out) ==
    [t EXCEPT !.access_token = out.access_token,
              !.expires_in = t.expires_in + out.expires,
              !.refresh_token = out.refresh_token]

\* the three assignments after a successful crate::refresh_token
refresh_assign(t, out) ==
    [t EXCEPT !.access_token = out.access_token,
              !.expires_in = out.expires,
              !.refresh_token = out.refresh_token]

\* What the token went through just before a refresh: the exchange of a
\* UserTokenBuilder that made it (with the builder's client secret), a
\* set_secret (with its argument), or anything else
preceding ==
    IF op = "u_get_user_token" /\ res.tag = "Ok"
    THEN [op |-> op, client_secret |-> Some(args.self.client_secret)]
    ELSE IF op = "set_secret"
    THEN [op |-> op, client_secret |-> args.secret]
    ELSE [op |-> "other", client_secret |-> None]

RefreshToken ==
    /\ Idle /\ tok # None
    /\ op' = "refresh_token"
    /\ args' = [self |-> tok.v, dropped |-> dropped, after |-> preceding,
                req |-> IF refresh_precheck(tok.v) = "call"
                        THEN Some(refresh_request(tok.v)) ELSE None]
    /\ LET chk == refresh_precheck(tok.v) IN
       IF chk = "call"
       THEN /\ tok' = Some(take_refresh_token(tok.v))
            /\ pend' = Some([kind |-> "refresh", req |-> refresh_request(tok.v)])
            /\ pc' = "refresh_await"
            /\ calls' = 1
            /\ res' = [tag |-> "Pending"]
       ELSE /\ res' = [tag |-> chk]
            /\ calls' = 0
            /\ UNCHANGED <<tok, pend, pc>>
    /\ UNCHANGED <<now, ub, ib, bh, dropped>>

RefreshResponse ==
    /\ pc = "refresh_await"
    /\ \E out \in RefreshOutcomes :
          IF out.ok
          THEN /\ tok' = Some(refresh_assign(tok.v, out))
               /\ res' = [tag |-> "Ok", out |-> out, at |-> now]
               /\ dropped' = ~out.refresh_token.some
          ELSE /\ tok' = tok
               /\ res' = [tag |-> out.err]
               /\ dropped' = dropped
    /\ pc' = "idle"
    /\ pend' = None
    /\ UNCHANGED <<now, ub, ib, op, calls, args, bh>>

\* pub refresh_token: the owner of the token stores a refresh token into the field
AssignRefreshToken ==
    /\ Idle /\ tok # None
    /\ \E rt \in RefreshTokens :
          tok' = Some([tok.v EXCEPT !.refresh_token = Some(rt)])
    /\ op' = "assign_refresh_token"
    /\ res' = [tag |-> "Ok"]
    /\ calls' = 0
    /\ args' = None
    /\ dropped' = FALSE
    /\ UNCHANGED <<now, ub, ib, pc, pend, bh>>

\* A future dropped at its .await: the operation never returns
Abandon ==
    /\ pc # "idle"
    /\ pc' = "idle"
    /\ pend' = None
    /\ res' = [tag |-> "Dropped"]
    /\ UNCHANGED <<now, tok, ub, ib, op, calls, args, bh, dropped>>

\* Outcomes of crate::validate_token: the token is rejected, the injected call
\* fails, or the validation response.
ValidateErrors == {"NotAuthorized", "RequestError"}
ValidatedTokens ==
    [client_id : ClientIds, login : Option(Logins), user_id : Option(UserIds),
     scopes : Option({<<"chat:read">>}), expires_in : Durations]
ValidateOutcomes ==
    {[ok |-> FALSE, err |-> e] : e \in ValidateErrors}
    \cup {[ok |-> TRUE, validated |-> v] : v \in ValidatedTokens}

\* the filter looking at the whole seconds only
expires_filter_secs_only(d) ==
    IF ~(as_secs(d) = 0) THEN Some(d) ELSE None

\* Some(validated.expires_in).filter(..): a zero duration is no expiry at all
expires_filter(d) ==
    IF ~(as_secs(d) = 0 /\ as_nanos(d) = 0) THEN Some(d) ELSE None

\* the refresh token handed to from_existing is not stored
from_existing_validated_no_refresh_token(access_token, refresh_token, client_secret, validated) ==
    IF ~validated.login.some THEN [ok |-> FALSE, err |-> "NoLogin"]
    ELSE IF ~validated.user_id.some THEN [ok |-> FALSE, err |-> "NoLogin"]
    ELSE [ok |-> TRUE,
          token |-> from_existing_unchecked(access_token, None,
                        validated.client_id, client_secret, validated.login.v,
                        validated.user_id.v, validated.scopes,
                        expires_filter(validated.expires_in))]

\* the client secret handed to from_existing is not stored
from_existing_validated_no_secret(access_token, refresh_token, client_secret, validated) ==
    IF ~validated.login.some THEN [ok |-> FALSE, err |-> "NoLogin"]
    ELSE IF ~validated.user_id.some THEN [ok |-> FALSE, err |-> "NoLogin"]
    ELSE [ok |-> TRUE,
          token |-> from_existing_unchecked(access_token, refresh_token,
                        validated.client_id, None, validated.login.v,
                        validated.user_id.v, validated.scopes,
                        expires_filter(validated.expires_in))]

\* from_existing after crate::validate_token returned `validated`
from_existing_validated(access_token, refresh_token, client_secret, validated) ==
    IF ~validated.login.some THEN [ok |-> FALSE, err |-> "NoLogin"]
    ELSE IF ~validated.user_id.some THEN [ok |-> FALSE, err |-> "NoLogin"]
    ELSE [ok |-> TRUE,
          token |-> from_existing_unchecked(access_token, refresh_token,
                        validated.client_id, client_secret, validated.login.v,
                        validated.user_id.v, validated.scopes,
                        expires_filter(validated.expires_in))]

\* from_existing, up to the .await of crate::validate_token
validate_pending(origin, access_token, refresh_token, client_secret) ==
    Some([kind |-> "validate", origin |-> origin, access_token |-> access_token,
          refresh_token |-> refresh_token, client_secret |-> client_secret])

FromExisting ==
    /\ Idle /\ Direct /\ tok = None
    /\ \E at \in AccessTokens, rt \in Option(RefreshTokens),
          cs \in Option(ClientSecrets) :
          /\ pend' = validate_pending("from_existing", at, rt, cs)
          /\ args' = [access_token |-> at, refresh_token |-> rt, client_secret |-> cs]
    /\ pc' = "validate_await"
    /\ op' = "from_existing"
    /\ res' = [tag |-> "Pending"]
    /\ calls' = 1
    /\ UNCHANGED <<now, tok, ub, ib, bh, dropped>>

\* the builders' .map_err(Into::into) wraps a ValidationError; from_existing
\* called directly returns it as it is
validation_error(origin, e) ==
    IF origin = "from_existing"
    THEN [tag |-> e, err |-> e, out |-> None, response |-> None]
    ELSE [tag |-> "ValidationError", err |-> e, out |-> None, response |-> None]

\* the token response of the grant exchange from_existing was called with by
\* UserTokenBuilder::get_user_token, None for the other callers
granted(origin) == IF origin = "user" THEN Some(res.response) ELSE None

ValidateResponse ==
    /\ pc = "validate_await"
    /\ \E out \in ValidateOutcomes :
          IF out.ok
          THEN LET r == from_existing_validated(pend.v.access_token,
                            pend.v.refresh_token, pend.v.client_secret,
                            out.validated) IN
               IF r.ok
               THEN /\ tok' = Some(r.token)
                    /\ res' = [tag |-> "Ok", validated |-> out.validated,
                               response |-> granted(pend.v.origin)]
               ELSE /\ tok' = tok
                    /\ res' = [validation_error(pend.v.origin, r.err)
                                  EXCEPT !.out = out, !.response = granted(pend.v.origin)]
          ELSE /\ tok' = tok
               /\ res' = [validation_error(pend.v.origin, out.err)
                             EXCEPT !.out = out, !.response = granted(pend.v.origin)]
    /\ pc' = "idle"
    /\ pend' = None
    /\ UNCHANGED <<now, ub, ib, op, calls, args, bh, dropped>>

\* ------------------------------------------------------------------ UserTokenBuilder
RedirectUrls == {"https://localhost"}
ScopeLists == {<<>>} \cup {<<sc>> : sc \in ScopeVals}

UserTokenBuilder_new(client_id, client_secret, redirect_url) ==
    [scopes |-> <<>>,
     csrf |-> None,
     force_verify |-> FALSE,
     redirect_url |-> redirect_url,
     client_id |-> client_id,
     client_secret |-> client_secret]

\* the authorize URL, as its query parameters
authorize_url(response_type, client_id, redirect_url, scopes, force_verify, csrf) ==
    [response_type |-> response_type,
     client_id |-> client_id,
     redirect_uri |-> redirect_url,
     scope |-> scopes,
     state |-> csrf,
     force_verify |-> IF force_verify THEN "true" ELSE "false"]

USetScopes ==
    /\ Idle /\ ub # None
    /\ \E scopes \in ScopeLists : ub' = Some([ub.v EXCEPT !.scopes = scopes])
    /\ op' = "u_set_scopes"
    /\ res' = [tag |-> "Ok"]
    /\ calls' = 0
    /\ UNCHANGED <<now, tok, ib, pc, pend, bh, dropped>>
    /\ args' = None

UAddScope ==
    /\ Idle /\ ub # None
    /\ Len(ub.v.scopes) < MaxScopes
    /\ \E scope \in ScopeVals :
          ub' = Some([ub.v EXCEPT !.scopes = Append(ub.v.scopes, scope)])
    /\ op' = "u_add_scope"
    /\ res' = [tag |-> "Ok"]
    /\ calls' = 0
    /\ UNCHANGED <<now, tok, ib, pc, pend, bh, dropped>>
    /\ args' = None

UForceVerify ==
    /\ Idle /\ ub # None
    /\ \E b \in BOOLEAN : ub' = Some([ub.v EXCEPT !.force_verify = b])
    /\ op' = "u_force_verify"
    /\ res' = [tag |-> "Ok"]
    /\ calls' = 0
    /\ UNCHANGED <<now, tok, ib, pc, pend, bh, dropped>>
    /\ args' = None

\* a CSRF value once stored is kept: the new one is handed out only
store_csrf_keeps_first(b, csrf) ==
    IF b.csrf.some THEN b ELSE [b EXCEPT !.csrf = Some(csrf)]

\* self.csrf = Some(csrf.clone()) of both builders' generate_url
store_csrf(b, csrf) == [b EXCEPT !.csrf = Some(csrf)]

UGenerateUrl ==
    /\ Idle /\ ub # None
    /\ \E csrf \in RandomCsrf :
          /\ ub' = Some(store_csrf(ub.v, csrf))
          /\ res' = [tag |-> "Ok", csrf |-> Some(csrf),
                     url |-> authorize_url("code", ub.v.client_id, ub.v.redirect_url,
                                 ub.v.scopes, ub.v.force_verify, csrf)]
    /\ op' = "u_generate_url"
    /\ args' = None
    /\ calls' = 0
    /\ bh' = [bh EXCEPT !.issued = res'.csrf, !.prev = bh.issued, !.fresh = TRUE]
    /\ UNCHANGED <<now, tok, ib, pc, pend, dropped>>

\* set_csrf (and the tests' t.csrf = Some(..))
USetCsrf ==
    /\ Idle /\ ub # None
    /\ \E csrf \in CsrfVals : ub' = Some([ub.v EXCEPT !.csrf = Some(csrf)])
    /\ op' = "u_set_csrf"
    /\ args' = None
    /\ res' = [tag |-> "Ok"]
    /\ calls' = 0
    /\ bh' = [bh EXCEPT !.stored = TRUE, !.fresh = FALSE]
    /\ UNCHANGED <<now, tok, ib, pc, pend, dropped>>

\* the check with nothing to compare against letting the exchange through
user_csrf_check_unset_passes(csrf, state) ==
    IF csrf.some
    THEN IF csrf.v # state THEN FALSE ELSE TRUE
    ELSE TRUE

\* the CSRF check of UserTokenBuilder::get_user_token: TRUE when it passes
user_csrf_check(csrf, state) ==
    IF csrf.some
    THEN IF csrf.v # state THEN FALSE ELSE TRUE
    ELSE FALSE

\* the query parameters of the grant-exchange POST
grant_request(b, code) ==
    [client_id |-> b.client_id,
     client_secret |-> b.client_secret,
     code |-> code,
     grant_type |-> "authorization_code",
     redirect_uri |-> b.redirect_url]

\* get_user_token taking the builder by reference: a refused state leaves it usable
UGetUserToken_keeps_refused_builder ==
    /\ Idle /\ ub # None
    /\ \E state \in CsrfVals, code \in Codes :
          /\ args' = [self |-> ub.v, bh |-> bh, state |-> Some(state), code |-> code]
          /\ IF user_csrf_check(ub.v.csrf, state)
             THEN /\ pend' = Some([kind |-> "grant",
                                   client_secret |-> ub.v.client_secret,
                                   req |-> grant_request(ub.v, code)])
                  /\ pc' = "grant_await"
                  /\ calls' = 1
                  /\ res' = [tag |-> "Pending"]
             ELSE /\ res' = [tag |-> "StateMismatch"]
                  /\ calls' = 0
                  /\ UNCHANGED <<pend, pc>>
    /\ ub' = IF res'.tag = "StateMismatch" THEN ub ELSE None
    /\ bh' = NoHistory
    /\ op' = "u_get_user_token"
    /\ UNCHANGED <<now, tok, ib, dropped>>

UGetUserToken ==
    /\ Idle /\ ub # None
    /\ \E state \in CsrfVals, code \in Codes :
          /\ args' = [self |-> ub.v, bh |-> bh, state |-> Some(state), code |-> code]
          /\ IF user_csrf_check(ub.v.csrf, state)
             THEN /\ pend' = Some([kind |-> "grant",
                                   client_secret |-> ub.v.client_secret,
                                   req |-> grant_request(ub.v, code)])
                  /\ pc' = "grant_await"
                  /\ calls' = 1
                  /\ res' = [tag |-> "Pending"]
             ELSE /\ res' = [tag |-> "StateMismatch"]
                  /\ calls' = 0
                  /\ UNCHANGED <<pend, pc>>
    /\ ub' = None
    /\ bh' = NoHistory
    /\ op' = "u_get_user_token"
    /\ UNCHANGED <<now, tok, ib, dropped>>

\* Responses of the injected call to the grant-exchange POST
StatusCodes == {"OK", "BAD_REQUEST", "FORBIDDEN", "UNAUTHORIZED", "INTERNAL_SERVER_ERROR"}
ErrorBodies == {[kind |-> "error", status |-> "BAD_REQUEST", message |-> "Invalid authorization code"]}
TokenBodies ==
    {[kind |-> "token", access_token |-> a, refresh_token |-> r, expires_in |-> d] :
        a \in AccessTokens, r \in Option(RefreshTokens), d \in {1, MaxExpiry}}
Bodies == ErrorBodies \cup TokenBodies \cup {[kind |-> "garbage"]}
GrantResponses ==
    {[ok |-> FALSE]} \cup {[ok |-> TRUE, status_code |-> c, body |-> b] :
                              c \in StatusCodes, b \in Bodies}

\* serde_json::from_slice::<TwitchTokenErrorResponse>
parse_error_body(body) ==
    IF body.kind = "error"
    THEN Some([status |-> body.status, message |-> body.message])
    ELSE None

\* serde_json::from_slice::<TwitchTokenResponse>
parse_token_body(body) == IF body.kind = "token" THEN Some(body) ELSE None

\* the status of the response is not looked at: a token body is gone on with
grant_result_ignores_status(resp) ==
    IF ~resp.ok THEN [ok |-> FALSE, err |-> [tag |-> "RequestError"]]
    ELSE LET response == parse_token_body(resp.body) IN
         IF response.some THEN [ok |-> TRUE, response |-> response.v]
         ELSE [ok |-> FALSE, err |-> [tag |-> "SerdeError"]]

\* get_user_token from the response of the POST to the call of from_existing:
\* the error it returns, or the token response it goes on with
grant_result(resp) ==
    IF ~resp.ok THEN [ok |-> FALSE, err |-> [tag |-> "RequestError"]]
    ELSE IF resp.status_code = "OK"
    THEN LET response == parse_token_body(resp.body) IN
         IF response.some THEN [ok |-> TRUE, response |-> response.v]
         ELSE [ok |-> FALSE, err |-> [tag |-> "SerdeError"]]
    ELSE IF resp.status_code = "BAD_REQUEST" \/ resp.status_code = "FORBIDDEN"
    THEN LET e == parse_error_body(resp.body) IN
         IF e.some THEN [ok |-> FALSE, err |-> [tag |-> "TwitchError", error |-> e.v]]
         ELSE [ok |-> FALSE, err |-> [tag |-> "SerdeError"]]
    ELSE [ok |-> FALSE,
          err |-> [tag |-> "TwitchError",
                   error |-> [status |-> resp.status_code, message |-> "<censored>"]]]

GrantResponse ==
    /\ pc = "grant_await"
    /\ \E resp \in GrantResponses :
          LET r == grant_result(resp) IN
          IF r.ok
          THEN /\ pend' = validate_pending("user", r.response.access_token,
                              r.response.refresh_token, Some(pend.v.client_secret))
               /\ pc' = "validate_await"
               /\ calls' = calls + 1
               /\ res' = [tag |-> "Pending", response |-> r.response, resp |-> resp]
          ELSE /\ res' = [tag |-> r.err.tag, err |-> r.err, resp |-> resp]
               /\ pc' = "idle"
               /\ pend' = None
               /\ calls' = calls
    /\ UNCHANGED <<now, tok, ub, ib, op, args, bh, dropped>>

\* ------------------------------------------------------------------ ImplicitUserTokenBuilder
ImplicitUserTokenBuilder_new(client_id, redirect_url) ==
    [scopes |-> <<>>,
     client |-> [client_id |-> client_id, redirect_url |-> redirect_url],
     csrf |-> None,
     force_verify |-> FALSE]

ISetScopes ==
    /\ Idle /\ ib # None
    /\ \E scopes \in ScopeLists : ib' = Some([ib.v EXCEPT !.scopes = scopes])
    /\ op' = "i_set_scopes"
    /\ res' = [tag |-> "Ok"]
    /\ calls' = 0
    /\ UNCHANGED <<now, tok, ub, pc, pend, bh, dropped>>
    /\ args' = None

IAddScope ==
    /\ Idle /\ ib # None
    /\ Len(ib.v.scopes) < MaxScopes
    /\ \E scope \in ScopeVals :
          ib' = Some([ib.v EXCEPT !.scopes = Append(ib.v.scopes, scope)])
    /\ op' = "i_add_scope"
    /\ res' = [tag |-> "Ok"]
    /\ calls' = 0
    /\ UNCHANGED <<now, tok, ub, pc, pend, bh, dropped>>
    /\ args' = None

IForceVerify ==
    /\ Idle /\ ib # None
    /\ \E b \in BOOLEAN : ib' = Some([ib.v EXCEPT !.force_verify = b])
    /\ op' = "i_force_verify"
    /\ res' = [tag |-> "Ok"]
    /\ calls' = 0
    /\ UNCHANGED <<now, tok, ub, pc, pend, bh, dropped>>
    /\ args' = None

IGenerateUrl ==
    /\ Idle /\ ib # None
    /\ \E csrf \in RandomCsrf :
          /\ ib' = Some(store_csrf(ib.v, csrf))
          /\ res' = [tag |-> "Ok", csrf |-> Some(csrf),
                     url |-> authorize_url("token", ib.v.client.client_id,
                                 ib.v.client.redirect_url, ib.v.scopes,
                                 ib.v.force_verify, csrf)]
    /\ op' = "i_generate_url"
    /\ args' = None
    /\ calls' = 0
    /\ bh' = [bh EXCEPT !.issued = res'.csrf, !.prev = bh.issued, !.fresh = TRUE]
    /\ UNCHANGED <<now, tok, ub, pc, pend, dropped>>

\* t.csrf = Some(..): the field is pub(crate), the crate's tests store into it
IAssignCsrf ==
    /\ Idle /\ ib # None
    /\ \E csrf \in CsrfVals : ib' = Some([ib.v EXCEPT !.csrf = Some(csrf)])
    /\ op' = "i_assign_csrf"
    /\ args' = None
    /\ res' = [tag |-> "Ok"]
    /\ calls' = 0
    /\ bh' = [bh EXCEPT !.stored = TRUE, !.fresh = FALSE]
    /\ UNCHANGED <<now, tok, ub, pc, pend, dropped>>

\* Option<&str>::unwrap_or
unwrap_or(o, d) == IF o.some THEN o.v ELSE d

\* the CSRF check of ImplicitUserTokenBuilder::get_user_token: TRUE when it passes
implicit_csrf_check(csrf, state) ==
    IF csrf.some
    THEN IF csrf.v # unwrap_or(state, "") THEN FALSE ELSE TRUE
    ELSE FALSE

ErrorVals == {"access_denied"}
DescriptionVals == {"The user denied you access"}

\* an access token is validated whatever error came with it
implicit_match_token_wins(access_token, error, error_description) ==
    IF access_token.some
    THEN [validate |-> TRUE, access_token |-> access_token.v]
    ELSE [validate |-> FALSE,
          err |-> [tag |-> "TwitchError", error |-> error,
                   description |-> error_description]]

\* the match on (access_token, error, error_description): "validate" or the error
implicit_match(access_token, error, error_description) ==
    IF access_token.some /\ ~error.some /\ ~error_description.some
    THEN [validate |-> TRUE, access_token |-> access_token.v]
    ELSE [validate |-> FALSE,
          err |-> [tag |-> "TwitchError", error |-> error,
                   description |-> error_description]]

IGetUserToken ==
    /\ Idle /\ ib # None
    /\ \E state \in Option(CsrfVals), access_token \in Option(AccessTokens),
          error \in Option(ErrorVals), error_description \in Option(DescriptionVals) :
          /\ args' = [self |-> ib.v, bh |-> bh, state |-> state,
                       access_token |-> access_token, error |-> error,
                       error_description |-> error_description]
          /\ IF implicit_csrf_check(ib.v.csrf, state)
             THEN LET m == implicit_match(access_token, error, error_description) IN
                  IF m.validate
                  THEN /\ pend' = validate_pending("implicit", m.access_token, None, None)
                       /\ pc' = "validate_await"
                       /\ calls' = 1
                       /\ res' = [tag |-> "Pending"]
                  ELSE /\ res' = m.err
                       /\ calls' = 0
                       /\ UNCHANGED <<pend, pc>>
             ELSE /\ res' = [tag |-> "StateMismatch"]
                  /\ calls' = 0
                  /\ UNCHANGED <<pend, pc>>
    /\ ib' = None
    /\ bh' = NoHistory
    /\ op' = "i_get_user_token"
    /\ UNCHANGED <<now, tok, ub, dropped>>

\* ------------------------------------------------------------------ specification
Init ==
    /\ now = 0
    /\ tok = None
    /\ \/ /\ \E cid \in ClientIds, cs \in ClientSecrets, ru \in RedirectUrls :
                ub = Some(UserTokenBuilder_new(cid, cs, ru))
          /\ ib = None
       \/ /\ ub = None
          /\ \E cid \in ClientIds, ru \in RedirectUrls :
                ib = Some(ImplicitUserTokenBuilder_new(cid, ru))
       \/ /\ ub = None
          /\ ib = None
    /\ pc = "idle"
    /\ pend = None
    /\ op = "none"
    /\ res = [tag |-> "none"]
    /\ args = None
    /\ calls = 0
    /\ bh = NoHistory
    /\ dropped = FALSE

Next ==
    \/ Tick
    \/ FromExistingUnchecked
    \/ FromExisting
    \/ ValidateResponse
    \/ SetSecret
    \/ AssignRefreshToken
    \/ RefreshToken
    \/ RefreshResponse
    \/ Abandon
    \/ USetScopes
    \/ UAddScope
    \/ UForceVerify
    \/ UGenerateUrl
    \/ USetCsrf
    \/ UGetUserToken
    \/ GrantResponse
    \/ ISetScopes
    \/ IAddScope
    \/ IForceVerify
    \/ IGenerateUrl
    \/ IAssignCsrf
    \/ IGetUserToken

Spec == Init /\ [][Next]_vars

\* ------------------------------------------------------------------ properties
\* a refresh_token call has been made and is the last operation
Refreshing == op = "refresh_token"
\* ... and has returned
Refreshed == Refreshing /\ pc = "idle" /\ res.tag # "Dropped"
\* get_user_token of either builder is the last operation
Exchanging == op \in {"u_get_user_token", "i_get_user_token"}
NoToken == "NoRefreshToken"
NoSecret == "NoClientSecretFound"

\* C1: a refresh_token call that returned an error left the token exactly as
\* it was when the call was made (all fields, the refresh token included).
C1_FailedRefreshLeavesTokenUnchanged ==
    (Refreshed /\ res.tag # "Ok") => tok = Some(args.self)

\* C2: get_user_token of either builder returns StateMismatch exactly when the
\* builder holds no CSRF token or the returned state is not the stored secret;
\* it has then made no HTTP call; and a returned state equal to the value the
\* most recent generate_url returned passes the check.
C2_StateMismatchIffStateDiffers ==
    Exchanging =>
        /\ (res.tag = "StateMismatch")
              <=> (~args.self.csrf.some \/ args.state # args.self.csrf)
        /\ res.tag = "StateMismatch" => calls = 0
        /\ (args.bh.issued.some /\ args.state = args.bh.issued)
              => res.tag # "StateMismatch"

\* C3, as stated: get_user_token on a builder whose generate_url was never
\* called returns StateMismatch, whatever else was called on the builder.
C3_NoGenerateUrlMismatch ==
    (Exchanging /\ ~args.bh.issued.some) => res.tag = "StateMismatch"

\* C3, amended: get_user_token on a builder on which neither generate_url nor
\* set_csrf (nor a store into the csrf field) was ever called returns
\* StateMismatch, for every returned state.
C3_NoCsrfStoredMismatch ==
    (Exchanging /\ ~args.bh.issued.some /\ ~args.bh.stored)
        => res.tag = "StateMismatch"

\* get_user_token with the empty state on a builder that had its scopes and
\* force_verify set, but no CSRF value generated or stored
C3_Witness ==
    /\ op = "u_get_user_token"
    /\ ~args.bh.issued.some /\ ~args.bh.stored
    /\ args.self.force_verify /\ args.self.scopes # <<>>
    /\ args.state = Some("")
    /\ res.tag = "StateMismatch"

\* C4, as stated: refresh_token on a token without a refresh token fails with
\* NoRefreshToken and makes no HTTP call, also when the secret is absent too.
C4_NoRefreshTokenAlways ==
    (Refreshing /\ ~args.self.refresh_token.some)
        => res.tag = NoToken /\ calls = 0

\* C4, amended: refresh_token on a token without a refresh token makes no HTTP
\* call and fails with NoRefreshToken when the token holds a client secret, and
\* with NoClientSecretFound when the secret is absent too.
C4_NoRefreshTokenFails ==
    (Refreshing /\ ~args.self.refresh_token.some)
        => /\ calls = 0
           /\ res.tag = IF args.self.client_secret.some THEN NoToken ELSE NoSecret

C4_Witness ==
    /\ Refreshing
    /\ ~args.self.refresh_token.some /\ args.self.client_secret.some
    /\ res.tag = NoToken /\ calls = 0

\* C5: refresh_token on a token without a client secret fails with
\* NoClientSecretFound and makes no HTTP call, whether or not the token holds a
\* refresh token.
C5_NoClientSecretFails ==
    (Refreshing /\ ~args.self.client_secret.some)
        => res.tag = NoSecret /\ calls = 0

C5_Witness ==
    /\ Refreshing
    /\ ~args.self.client_secret.some /\ args.self.refresh_token.some
    /\ res.tag = NoSecret /\ calls = 0

\* max(0, d - e)
Remaining(d, e) == IF e >= d THEN 0 ELSE d - e

\* C6: after a successful refresh at time t1 that reported the expiry D, the
\* remaining lifetime at t1 + e is max(0, D - e), whenever the token was
\* constructed (stated on the tokens that expire).
C6_RefreshResetsCreation ==
    (Refreshing /\ res.tag = "Ok" /\ ~tok.v.never_expiring)
        => expires_in(tok.v) = Remaining(res.out.expires, now - res.at)

\* C7, as stated: after a successful refresh the token holds the refresh token
\* of the response (none if none was issued), and once none was issued every
\* later refresh_token call fails with NoRefreshToken and makes no HTTP call,
\* until a refresh token is stored from outside.
C7_DroppedThenNoRefreshToken ==
    /\ (Refreshing /\ res.tag = "Ok") => tok.v.refresh_token = res.out.refresh_token
    /\ (Refreshing /\ args.dropped) => res.tag = NoToken /\ calls = 0

\* C7, amended: after a successful refresh the token holds the refresh token
\* of the response (none if none was issued), and once none was issued every
\* later refresh_token call makes no HTTP call and fails, until a refresh token
\* is stored from outside: with NoRefreshToken while the token holds a client
\* secret, with NoClientSecretFound once set_secret(None) removed it.
C7_DroppedThenRefreshFails ==
    /\ (Refreshing /\ res.tag = "Ok") => tok.v.refresh_token = res.out.refresh_token
    /\ (Refreshing /\ args.dropped)
          => /\ calls = 0
             /\ res.tag = IF args.self.client_secret.some THEN NoToken ELSE NoSecret

\* a refresh_token call on a token whose last successful refresh brought no
\* refresh token
C7_Witness ==
    /\ Refreshing /\ args.dropped
    /\ res.tag = NoToken /\ calls = 0
    /\ ~tok.v.refresh_token.some

\* C8: a never_expiring token reports the maximum duration as its remaining
\* lifetime in every state (above zero and above every lifetime and time of
\* the model), and a refresh_token call on it with a refresh token and a client
\* secret is not rejected by a check: it makes the HTTP call.
C8_NeverExpiring ==
    /\ (tok # None /\ tok.v.never_expiring)
          => /\ expires_in(tok.v) = MaxSecs * TicksPerSec + (TicksPerSec - 1)
             /\ expires_in(tok.v) > 0
    /\ (Refreshing /\ args.self.never_expiring /\ args.self.refresh_token.some
          /\ args.self.client_secret.some)
          => calls = 1 /\ res.tag \notin {NoToken, NoSecret}

\* a never_expiring token refreshed with a finite expiry some time after its
\* construction, and queried some time after the refresh
C8_Witness ==
    /\ tok # None /\ tok.v.never_expiring
    /\ Refreshed /\ res.tag = "Ok"
    /\ res.at > tok.v.struct_created
    /\ now > res.at
    /\ tok.v.expires_in <= MaxExpiry

\* C9: a token that is not never_expiring, with the stored expiry D and the
\* creation instant c, reports max(0, D - (now - c)): D when no time has
\* passed, 0 once D or more has passed, never a negative value.
C9_RemainingLifetime ==
    (tok # None /\ ~tok.v.never_expiring)
        => LET D == tok.v.expires_in
               e == now - tok.v.struct_created
           IN /\ e >= 0
              /\ expires_in(tok.v) = Remaining(D, e)
              /\ expires_in(tok.v) >= 0
              /\ e = 0 => expires_in(tok.v) = D
              /\ e >= D => expires_in(tok.v) = 0

\* more time has passed than the token's positive lifetime
C9_Witness ==
    /\ tok # None /\ ~tok.v.never_expiring
    /\ tok.v.expires_in > 0
    /\ now - tok.v.struct_created > tok.v.expires_in
    /\ expires_in(tok.v) = 0

\* from_existing has returned a token, the last operation
Validated == res.tag = "Ok" /\ "validated" \in DOMAIN res /\ tok # None

ValidationFailed ==
    /\ op = "from_existing" /\ Idle
    /\ res.tag \notin {"Ok", "Dropped"}

\* C11: from_existing fails, producing no token, with one error per cause:
\* NotAuthorized when validation rejects the token, NoLogin when the validation
\* response has no login, NoUserId when it has a login and no user id.
C11_DistinctValidationErrors ==
    ValidationFailed =>
        /\ tok = None
        /\ (~res.out.ok /\ res.out.err = "NotAuthorized") => res.tag = "NotAuthorized"
        /\ (res.out.ok /\ ~res.out.validated.login.some) => res.tag = "NoLogin"
        /\ (res.out.ok /\ res.out.validated.login.some
              /\ ~res.out.validated.user_id.some) => res.tag = "NoUserId"

\* the grant-exchange POST of get_user_token was answered with a status other
\* than OK (the CSRF check passed, or there had been no POST)
GrantRefused ==
    /\ op = "u_get_user_token" /\ Idle
    /\ "resp" \in DOMAIN res
    /\ res.resp.ok /\ res.resp.status_code # "OK"

\* C12: after the CSRF check passes, a response with a non-success status and a
\* parseable error body {status, message} yields the provider error carrying
\* the parsed body, whatever the status; a non-success status with any other
\* body yields the provider error carrying the status and a redacted message,
\* never a deserialization error.
C12_NonSuccessStatusErrors ==
    GrantRefused =>
        LET e == parse_error_body(res.resp.body) IN
        IF e.some
        THEN res.err = [tag |-> "TwitchError", error |-> e.v]
        ELSE res.err = [tag |-> "TwitchError",
                        error |-> [status |-> res.resp.status_code,
                                   message |-> "<censored>"]]

\* ImplicitUserTokenBuilder::get_user_token was called and its CSRF check passed
ImplicitMatched ==
    /\ op = "i_get_user_token"
    /\ implicit_csrf_check(args.self.csrf, args.state)

\* C13: in the implicit exchange whose CSRF check passed, the validation call is
\* made only when access_token is present and error and error_description are
\* both absent, and the token it yields has no refresh token and no client
\* secret; every other combination fails with the provider error carrying the
\* supplied error and description, without any call.
C13_ImplicitCallbackOutcomes ==
    ImplicitMatched =>
        IF args.access_token.some /\ ~args.error.some /\ ~args.error_description.some
        THEN /\ calls = 1
             /\ pc = "validate_await" =>
                   /\ pend.v.kind = "validate"
                   /\ pend.v.access_token = args.access_token.v
             /\ res.tag = "Ok" =>
                   /\ tok # None
                   /\ tok.v.access_token = args.access_token.v
                   /\ tok.v.refresh_token = None
                   /\ tok.v.client_secret = None
        ELSE /\ Idle /\ tok = None
             /\ calls = 0
             /\ res = [tag |-> "TwitchError", error |-> args.error,
                       description |-> args.error_description]

\* an access token and an error came back together: the error is reported
C13_Witness ==
    /\ ImplicitMatched
    /\ args.access_token.some /\ args.error.some
    /\ res.tag = "TwitchError" /\ res.error = args.error
    /\ calls = 0

\* an exchange on a builder whose last two generate_url calls returned
\* different CSRF values
Regenerated ==
    /\ Exchanging
    /\ args.bh.prev.some
    /\ args.bh.prev # args.bh.issued

\* C14 as stated: after a second generate_url that returned another CSRF value,
\* the exchange presenting the value of the first call yields StateMismatch,
\* and only the value of the most recent generate_url call passes the check.
C14_OnlyLastGeneratedPasses ==
    Regenerated =>
        /\ args.state = args.bh.prev => res.tag = "StateMismatch"
        /\ res.tag # "StateMismatch" => args.state = args.bh.issued

\* C14: the same, for the builder whose csrf field was last written by
\* generate_url (no set_csrf and no other store came after it).
C14_OnlyLastGeneratedPassesUnlessStored ==
    (Regenerated /\ args.bh.fresh) =>
        /\ args.state = args.bh.prev => res.tag = "StateMismatch"
        /\ res.tag # "StateMismatch" => args.state = args.bh.issued

\* the value of the earlier generate_url call is presented and refused
C14_Witness ==
    /\ Regenerated /\ args.bh.fresh
    /\ args.state = args.bh.prev
    /\ res.tag = "StateMismatch"
    /\ calls = 0

\* UserTokenBuilder::get_user_token has returned a token, the last operation
Exchanged == op = "u_get_user_token" /\ res.tag = "Ok"

\* C15 as stated: the token of a successful authorization-code exchange has,
\* right after the exchange, the remaining lifetime the grant response
\* reported as expires_in, and the refresh token of that response (stated on
\* the tokens that expire).
C15_LifetimeOfGrantResponse ==
    (Exchanged /\ now = tok.v.struct_created /\ ~tok.v.never_expiring) =>
        /\ expires_in(tok.v) = res.response.v.expires_in
        /\ tok.v.refresh_token = res.response.v.refresh_token

\* C15: the token of a successful authorization-code exchange has the refresh
\* token of the grant response and the lifetime the validation response
\* reported, counted from the construction of the token: never expiring when
\* that lifetime is zero; the expires_in of the grant response is not used.
C15_LifetimeOfValidation ==
    Exchanged =>
        LET d == res.validated.expires_in IN
        /\ tok.v.refresh_token = res.response.v.refresh_token
        /\ tok.v.access_token = res.response.v.access_token
        /\ IF d = 0
           THEN expires_in(tok.v) = DurationMax
           ELSE expires_in(tok.v) = Remaining(d, now - tok.v.struct_created)

\* the grant response and the validation response report different lifetimes
C15_Witness ==
    /\ Exchanged /\ now = tok.v.struct_created
    /\ res.response.v.refresh_token.some
    /\ res.validated.expires_in # 0
    /\ res.validated.expires_in # res.response.v.expires_in
    /\ expires_in(tok.v) = res.validated.expires_in

\* a refresh_token call made on the token of a successful authorization-code
\* exchange, the first operation on that token
RefreshAfterExchange == Refreshing /\ args.after.op = "u_get_user_token"

\* C16: the token of a successful authorization-code exchange holds the client
\* secret of the builder; when the grant response brought a refresh token, the
\* refresh that follows the exchange is rejected by neither precondition check
\* and makes the refresh call with that client secret, the refresh token of
\* the response and the client id of the token.
C16_ExchangedTokenCanRefresh ==
    /\ Exchanged =>
          /\ tok.v.client_secret = Some(args.self.client_secret)
          /\ tok.v.client_id = res.validated.client_id
    /\ (RefreshAfterExchange /\ args.self.refresh_token.some) =>
          /\ res.tag \notin {NoToken, NoSecret}
          /\ calls = 1
          /\ args.req = Some([grant_type |-> "refresh_token",
                              refresh_token |-> args.self.refresh_token.v,
                              client_id |-> args.self.client_id,
                              client_secret |-> args.after.client_secret.v])
          /\ pc = "refresh_await" => pend.v.req = args.req.v

\* the refresh call that follows an exchange is in flight
C16_Witness ==
    /\ RefreshAfterExchange
    /\ args.self.refresh_token.some
    /\ pc = "refresh_await"
    /\ pend.v.req.client_secret = args.after.client_secret.v

\* a refresh_token call made right after set_secret
RefreshAfterSetSecret == Refreshing /\ args.after.op = "set_secret"

\* C17: a refresh on a token that has a refresh token and no client secret
\* fails with NoClientSecret and leaves the token as it was; set_secret changes
\* the client secret alone; the refresh after set_secret(Some(s)) is not
\* rejected and makes the refresh call with the refresh token the token kept
\* and the secret s; the refresh after set_secret(None) fails with
\* NoClientSecret again, without a call.
C17_SecretSetLater ==
    /\ (Refreshing /\ ~args.self.client_secret.some /\ args.self.refresh_token.some) =>
          /\ res.tag = NoSecret /\ calls = 0
          /\ tok.v = args.self
    /\ op = "set_secret" => tok.v = [args.self EXCEPT !.client_secret = args.secret]
    /\ RefreshAfterSetSecret =>
          /\ args.self.client_secret = args.after.client_secret
          /\ IF args.after.client_secret.some
             THEN args.self.refresh_token.some =>
                     /\ res.tag \notin {NoToken, NoSecret}
                     /\ calls = 1
                     /\ args.req = Some([grant_type |-> "refresh_token",
                                         refresh_token |-> args.self.refresh_token.v,
                                         client_id |-> args.self.client_id,
                                         client_secret |-> args.after.client_secret.v])
             ELSE /\ res.tag = NoSecret /\ calls = 0
                  /\ tok.v = args.self

\* the refresh call with the secret of the set_secret before it is in flight
C17_Witness ==
    /\ RefreshAfterSetSecret
    /\ args.after.client_secret.some
    /\ pc = "refresh_await"
    /\ pend.v.req.client_secret = args.after.client_secret.v
    /\ pend.v.req.refresh_token = args.self.refresh_token.v

\* a refresh attempt is suspended at the injected call, or was abandoned there
RefreshSuspended ==
    /\ Refreshing
    /\ pc = "refresh_await" \/ res.tag = "Dropped"

\* C18: at a suspension point of a refresh attempt, and after the attempt was
\* abandoned there, the token does not pair the access token it had before the
\* refresh with a removed refresh token: its (access_token, refresh_token) is
\* the pair from before the refresh or the pair of the successful completion.
C18_NoOldAccessTokenWithoutRefreshToken ==
    RefreshSuspended =>
        ~ /\ tok.v.access_token = args.self.access_token
          /\ args.self.refresh_token.some
          /\ tok.v.refresh_token = None

\* the response of the grant-exchange POST lets the exchange go on: a success
\* status with a body that parses as a token response
GrantSucceeded(resp) ==
    /\ resp.ok
    /\ resp.status_code = "OK"
    /\ parse_token_body(resp.body).some

\* C19: the authorization-code exchange makes its calls in order and once
\* each: after a failed CSRF check none; the grant-exchange POST first; the
\* validation call second, and only after the POST returned a success status
\* with a parseable token body; a transport error, a non-success status or an
\* unparseable body of the POST ends the exchange with an error after that one
\* call; never more than two calls.
C19_ExchangeCallsInOrder ==
    op = "u_get_user_token" =>
        /\ calls \in 0 .. 2
        /\ res.tag = "StateMismatch" => calls = 0 /\ Idle
        /\ calls = 0 => res.tag = "StateMismatch"
        /\ pc = "grant_await" =>
              /\ calls = 1
              /\ pend.v.kind = "grant"
        /\ pc = "validate_await" =>
              /\ calls = 2
              /\ pend.v.kind = "validate"
              /\ GrantSucceeded(res.resp)
        /\ (Idle /\ "resp" \in DOMAIN res) =>
              /\ ~GrantSucceeded(res.resp)
              /\ res.tag \in {"RequestError", "TwitchError", "SerdeError"}
              /\ calls = 1
              /\ tok = None
        /\ (Idle /\ calls = 2 /\ res.tag # "Dropped") => res.response.some

\* the POST was answered with a non-success status and a token body: the
\* exchange ended there, after one call
C19_Witness ==
    /\ op = "u_get_user_token" /\ Idle
    /\ "resp" \in DOMAIN res
    /\ res.resp.ok /\ res.resp.status_code # "OK"
    /\ parse_token_body(res.resp.body).some
    /\ calls = 1

\* the operations of the two builders
UOps == {"u_set_scopes", "u_add_scope", "u_force_verify", "u_generate_url",
         "u_set_csrf", "u_get_user_token"}
IOps == {"i_set_scopes", "i_add_scope", "i_force_verify", "i_generate_url",
         "i_assign_csrf", "i_get_user_token"}

\* C20: get_user_token consumes its builder whatever it returns: the call
\* leaves no builder, a consumed builder never comes back, and once it is
\* consumed no operation of that builder (generate_url and get_user_token
\* among them) is invoked again, so that a builder yields one exchange result
\* at most.
C20_BuilderConsumedByExchange ==
    [][/\ op' = "u_get_user_token" => ub' = None
       /\ op' = "i_get_user_token" => ib' = None
       /\ ub = None => /\ ub' = None
                       /\ op' \in UOps => (op' = op /\ args' = args)
       /\ ib = None => /\ ib' = None
                       /\ op' \in IOps => (op' = op /\ args' = args)]_vars

\* an exchange refused for its state has consumed the builder all the same
C20_Witness ==
    /\ Exchanging
    /\ res.tag = "StateMismatch"
    /\ args.bh.issued.some
    /\ ub = None /\ ib = None

\* the fields of a token a refresh has no business with
Identity(t) ==
    [client_id |-> t.client_id, login |-> t.login, user_id |-> t.user_id,
     scopes |-> t.scopes, client_secret |-> t.client_secret,
     never_expiring |-> t.never_expiring]

\* C21: a refresh attempt, whatever its outcome and wherever it stands, leaves
\* client_id, login, user_id, scopes, client_secret and never_expiring of the
\* token as they were when it was called; and no step taken on a token that
\* exists (refresh, set_secret or any other) changes its client_id.
C21_RefreshKeepsIdentity ==
    [][/\ op' = "refresh_token" => Identity(tok'.v) = Identity(args'.self)
       /\ tok # None => /\ tok' # None
                        /\ tok'.v.client_id = tok.v.client_id]_vars

\* a refresh has replaced the access token and nothing of the identity
C21_Witness ==
    /\ Refreshing /\ res.tag = "Ok"
    /\ tok.v.access_token # args.self.access_token
    /\ Identity(tok.v) = Identity(args.self)
    /\ tok.v.client_secret.some

\* C22 as stated: in every state after a successful refresh that reported the
\* expiry D, the remaining lifetime of the token is at most D, for the token
\* that was never_expiring before the refresh as for any other.
C22_AtMostGrantedLifetime ==
    (Refreshing /\ res.tag = "Ok") => expires_in(tok.v) <= res.out.expires

\* C22: in every state after a successful refresh that reported the expiry D,
\* the remaining lifetime of a token that is not never_expiring is at most D;
\* a never_expiring token is never_expiring after the refresh as before and
\* its remaining lifetime stays the maximum duration.
C22_AtMostGrantedLifetimeUnlessNeverExpiring ==
    (Refreshing /\ res.tag = "Ok") =>
        /\ tok.v.never_expiring = args.self.never_expiring
        /\ IF tok.v.never_expiring
           THEN expires_in(tok.v) = DurationMax
           ELSE expires_in(tok.v) <= res.out.expires

\* some of the lifetime a refresh granted has passed
C22_Witness ==
    /\ Refreshing /\ res.tag = "Ok"
    /\ ~tok.v.never_expiring
    /\ res.out.expires > 0
    /\ now > res.at
    /\ expires_in(tok.v) < res.out.expires

\* C23: in the implicit exchange a callback without a state never passes the
\* CSRF check: whatever CSRF value the builder holds, returned by generate_url
\* or stored into it directly (the empty string included), get_user_token
\* with state = None yields StateMismatch.
C23_AbsentStateNeverPasses ==
    (op = "i_get_user_token" /\ ~args.state.some) => res.tag = "StateMismatch"
====
